---- MODULE Spec2Model ----
(***************************************************************************)
(* A model of the marshalling substrate of nvim-oxi:                       *)
(*   - Array::from_iter and the owning ArrayIterator (nvim-types/array.rs) *)
(*   - AsyncHandle::new / send and the async_cb trampoline (libuv-bindings)*)
(*   - schedule, Window::call and the Window getters (closure registry and *)
(*     error-slot glue)                                                    *)
(* Each part has its own next-state relation and specification; the parts  *)
(* share one Init and leave each other's variables unchanged.              *)
(***************************************************************************)
EXTENDS Integers, Sequences, FiniteSets, TLC

(* ------------------------------ bounds -------------------------------- *)

\* Longest native input handed to Array::from_iter.
MaxLen == 3

\* Calls of next() made on an exhausted iterator.
MaxNone == 2

\* Non-owning views made of one Array.
MaxViews == 3

\* Threads other than the host thread that hold a clone of the AsyncHandle.
NumThreads == 2

\* Calls of AsyncHandle::send made in one run, over all threads.
MaxSends == 6

\* References handed out by the interpreter's registry in one run.
MaxRefs == 2

\* Invocations of one registered closure through Function::call in one run.
MaxRuns == 2

\* Values the interpreter has on its stack when it calls into native code.
MaxDepth == 1

VARIABLES
    \* ---- Array / ArrayIterator ----
    aPc,        \* "init" | "built" | "iterating" | "iter_dropped" | "array_dropped"
    input,      \* the native sequence handed to from_iter
    items,      \* the Objects stored in the Array's buffer, in buffer order
    iter,       \* ArrayIterator {start, end}: offsets (in elements) from items.as_ptr()
    heap,       \* per-slot ownership and destructor bookkeeping
    yieldLog,   \* what every next() returned, in call order
    alloc,      \* the backing allocation: [live, frees]
    views,      \* non-owning views of the Array: [held, made]
    \* ---- AsyncHandle ----
    ah,         \* the uv_async_t control block, its payload and the bookkeeping
    tpc,        \* per sender thread: "idle" | "in_send"
    tret,       \* per sender thread: the status uv_async_send returned to it
    hostStack,  \* the host thread's call stack, innermost frame last
    hostRet,    \* the status uv_async_send returned to the host's own send
    \* ---- closure registry, schedule, Window ----
    lua,        \* the interpreter: stack, registry, scheduler queue, bookkeeping
    last        \* the last operation made through the bridge and its outcome

arrayVars == <<aPc, input, items, iter, heap, yieldLog, alloc, views>>

asyncVars == <<ah, tpc, tret, hostStack, hostRet>>

bridgeVars == <<lua, last>>

vars == <<aPc, input, items, iter, heap, yieldLog, alloc, views,
          ah, tpc, tret, hostStack, hostRet, lua, last>>

(* ====================================================================== *)
(*                       Array and ArrayIterator                          *)
(* ====================================================================== *)

\* Native items of the iterable: Option<&str>, the element type of the tests
\* ("Foo", "Bar", "Baz") wrapped so that an item can convert to nil.
NativeItems ==
    { [some |-> FALSE, s |-> ""],
      [some |-> TRUE, s |-> "Foo"],
      [some |-> TRUE, s |-> "Bar"],
      [some |-> TRUE, s |-> "Baz"] }

RECURSIVE SeqsUpTo(_, _)
SeqsUpTo(S, n) ==
    IF n = 0 THEN { <<>> }
    ELSE LET shorter == SeqsUpTo(S, n - 1)
         IN  shorter \cup { Append(q, x) : q \in { r \in shorter : Len(r) = n - 1 }, x \in S }

NativeInputs == SeqsUpTo(NativeItems, MaxLen)

\* Object::nil()
NilObject == [kind |-> "nil", val |-> ""]

\* Object::from(T): None becomes the nil object, Some(s) a string object.
ObjectFrom(x) ==
    IF x.some THEN [kind |-> "string", val |-> x.s] ELSE NilObject

\* Object::is_some
is_some(obj) == obj.kind # "nil"

\* A from_iter that forgets the filter.
from_iter_nofilter(in) ==
    [i \in 1..Len(in) |-> ObjectFrom(in[i])]

\* Iterator::filter over a sequence, keeping the relative order.
RECURSIVE FilterSeq(_)
FilterSeq(objs) ==
    IF objs = <<>> THEN <<>>
    ELSE IF is_some(Head(objs))
         THEN <<Head(objs)>> \o FilterSeq(Tail(objs))
         ELSE FilterSeq(Tail(objs))

\* impl FromIterator for Array: map(Object::from).filter(Object::is_some).collect().into()
from_iter(in) ==
    FilterSeq([i \in 1..Len(in) |-> ObjectFrom(in[i])])

\* Bookkeeping of the buffer's slots: who owns the element a slot holds, how
\* many destructor runs it has seen, and the order of the destructor runs.
NewHeap(n) ==
    [owner |-> [i \in 1..n |-> "array"],
     drops |-> [i \in 1..n |-> 0],
     log   |-> <<>>,
     iterLog |-> <<>>]

\* Vec<Object> -> Array: the Vec's allocation becomes the Array's (none when
\* the Vec is empty).
NewAlloc(n) == [live |-> n > 0, made |-> n > 0, frees |-> 0]

\* impl IntoIterator for Array: the Array is wrapped in ManuallyDrop (its
\* destructor never runs), start = items.as_ptr(), end = start.add(len).
into_iter(arr) ==
    [start |-> 0, end |-> 0 + Len(arr)]

NoIter == [start |-> 0, end |-> 0]

\* ptr::read(p): the element stored at offset p.
ptr_read(p) == items[p + 1]

\* ExactSizeIterator::len: end.offset_from(start)
iter_len(it) == it.end - it.start

\* A next() that reads the slot but forgets to advance start.
next_noadvance(it) ==
    IF it.start # it.end
    THEN [it |-> it, out |-> [some |-> TRUE, slot |-> it.start, obj |-> ptr_read(it.start)]]
    ELSE [it |-> it, out |-> [some |-> FALSE, slot |-> -1, obj |-> NilObject]]

\* Iterator::next: (start != end).then(|| { current = start; start += 1; read(current) })
next(it) ==
    IF it.start # it.end
    THEN [it  |-> [it EXCEPT !.start = it.start + 1],
          out |-> [some |-> TRUE, slot |-> it.start, obj |-> ptr_read(it.start)]]
    ELSE [it |-> it, out |-> [some |-> FALSE, slot |-> -1, obj |-> NilObject]]

\* ptr::drop_in_place(p): one destructor run on the element in slot p.
drop_in_place(h, p, byIter) ==
    [h EXCEPT !.owner[p + 1] = "destroyed",
              !.drops[p + 1] = @ + 1,
              !.log = Append(@, p),
              !.iterLog = IF byIter THEN Append(@, p) ELSE @]

\* while self.start != self.end { drop_in_place(start); start = start.offset(1) }
RECURSIVE drop_loop(_, _)
drop_loop(it, h) ==
    IF it.start # it.end
    THEN drop_loop([it EXCEPT !.start = it.start + 1], drop_in_place(h, it.start, TRUE))
    ELSE [it |-> it, heap |-> h]

\* A destructor that drains the whole buffer, yielded slots included.
ArrayIterator_drop_all(it, h) ==
    drop_loop([it EXCEPT !.start = 0], h)

\* impl Drop for ArrayIterator
ArrayIterator_drop(it, h) ==
    drop_loop(it, h)

\* impl Drop for Collection<T>: the elements are destroyed and the allocation
\* is handed back (the Vec is rebuilt from its raw parts and dropped).
RECURSIVE Collection_drop_elems(_, _, _)
Collection_drop_elems(h, p, n) ==
    IF p = n THEN h ELSE Collection_drop_elems(drop_in_place(h, p, FALSE), p + 1, n)

dealloc(a) == [a EXCEPT !.live = FALSE, !.frees = @ + 1]

\* ---- actions ----

\* let array = Array::from_iter(in)
FromIter ==
    /\ aPc = "init"
    /\ \E in \in NativeInputs :
         /\ input' = in
         /\ items' = from_iter(in)
         /\ heap' = NewHeap(Len(from_iter(in)))
         /\ alloc' = NewAlloc(Len(from_iter(in)))
    /\ aPc' = "built"
    /\ UNCHANGED <<iter, yieldLog, views>>
    /\ UNCHANGED <<asyncVars, bridgeVars>>

\* let mut iter = array.into_iter()
IntoIter ==
    /\ aPc = "built"
    /\ views.held = <<>>
    /\ iter' = into_iter(items)
    /\ heap' = [heap EXCEPT !.owner = [i \in 1..Len(items) |-> "iterator"]]
    /\ aPc' = "iterating"
    /\ UNCHANGED <<input, items, yieldLog, alloc, views>>
    /\ UNCHANGED <<asyncVars, bridgeVars>>

\* iter.next(): a yielded element now belongs to the caller.
IterNext ==
    /\ aPc = "iterating"
    /\ LET r == next(iter) IN
         /\ r.out.some \/ Len(yieldLog) < Len(items) + MaxNone
         /\ iter' = r.it
         /\ yieldLog' = Append(yieldLog, r.out)
         /\ heap' = IF r.out.some
                    THEN [heap EXCEPT !.owner[r.out.slot + 1] = "caller"]
                    ELSE heap
    /\ UNCHANGED <<aPc, input, items, alloc, views>>
    /\ UNCHANGED <<asyncVars, bridgeVars>>

\* The caller lets go of an element it was handed by next().
CallerDrop ==
    /\ aPc \in {"iterating", "iter_dropped"}
    /\ \E p \in 0..(Len(items) - 1) :
         /\ heap.owner[p + 1] = "caller"
         /\ heap' = drop_in_place(heap, p, FALSE)
    /\ UNCHANGED <<aPc, input, items, iter, yieldLog, alloc, views>>
    /\ UNCHANGED <<asyncVars, bridgeVars>>

\* drop(iter)
DropIter ==
    /\ aPc = "iterating"
    /\ LET r == ArrayIterator_drop(iter, heap) IN
         /\ iter' = r.it
         /\ heap' = r.heap
    /\ aPc' = "iter_dropped"
    /\ UNCHANGED <<input, items, yieldLog, alloc, views>>
    /\ UNCHANGED <<asyncVars, bridgeVars>>

\* drop(array), the Array never having been iterated.
DropArray ==
    /\ aPc = "built"
    /\ views.held = <<>>
    /\ heap' = Collection_drop_elems(heap, 0, Len(items))
    /\ alloc' = IF alloc.live THEN dealloc(alloc) ELSE alloc
    /\ aPc' = "array_dropped"
    /\ UNCHANGED <<input, items, iter, yieldLog, views>>
    /\ UNCHANGED <<asyncVars, bridgeVars>>

\* Self { ..*self }: a copy of the Array's own fields (pointer to the items
\* and length); the items themselves are not copied.
ArrayBits(arr) == [start |-> 0, size |-> Len(arr)]

\* NonOwning::new(value): the value is held without its destructor.
NonOwning_new(bits) == [inner |-> bits, wrapper |-> "NonOwning"]

\* A non_owning that hands out the bare copy, destructor included.
Array_owning_copy(arr) ==
    [inner |-> ArrayBits(arr), wrapper |-> "none"]

\* Array::non_owning: NonOwning::new(Self { ..*self })
Array_non_owning(arr) ==
    NonOwning_new(ArrayBits(arr))

\* The end of a view's scope: a NonOwning runs no destructor; a bare Array
\* value runs Collection's, on the buffer its fields point to.
drop_view(v, h, a) ==
    IF v.wrapper = "NonOwning"
    THEN [heap |-> h, alloc |-> a]
    ELSE [heap |-> Collection_drop_elems(h, 0, v.inner.size), alloc |-> dealloc(a)]

\* let view = array.non_owning(), as handed to a foreign call.
MakeView ==
    /\ aPc = "built"
    /\ views.made < MaxViews
    /\ views' = [held |-> Append(views.held, Array_non_owning(items)),
                 made |-> views.made + 1]
    /\ UNCHANGED <<aPc, input, items, iter, heap, yieldLog, alloc>>
    /\ UNCHANGED <<asyncVars, bridgeVars>>

\* A view goes out of scope (the foreign call it was made for has returned).
DropView ==
    /\ aPc = "built"
    /\ views.held # <<>>
    /\ LET r == drop_view(Head(views.held), heap, alloc) IN
         /\ heap' = r.heap
         /\ alloc' = r.alloc
    /\ views' = [views EXCEPT !.held = Tail(@)]
    /\ UNCHANGED <<aPc, input, items, iter, yieldLog>>
    /\ UNCHANGED <<asyncVars, bridgeVars>>

InitArray ==
    /\ aPc = "init"
    /\ input = <<>>
    /\ items = <<>>
    /\ iter = NoIter
    /\ heap = NewHeap(0)
    /\ yieldLog = <<>>
    /\ alloc = NewAlloc(0)
    /\ views = [held |-> <<>>, made |-> 0]

NextArray ==
    \/ FromIter
    \/ IntoIter
    \/ IterNext
    \/ CallerDrop
    \/ DropIter
    \/ DropArray
    \/ MakeView
    \/ DropView

(* ---------------------- claims about the Array ------------------------ *)

\* Positions of the input whose element does not convert to the nil object.
NonNilIdx == { i \in 1..Len(input) : ObjectFrom(input[i]) # NilObject }

\* The j-th smallest position of NonNilIdx.
NthNonNil(j) ==
    CHOOSE i \in NonNilIdx : Cardinality({ k \in NonNilIdx : k <= i }) = j

\* Number of elements next() has handed out so far.
Yielded == Cardinality({ j \in 1..Len(yieldLog) : yieldLog[j].some })

\* Slots whose element the caller still holds.
HeldByCaller == { i \in 1..Len(items) : heap.owner[i] = "caller" }

\* C3: ownership on partial consumption.  After k calls of next() and the drop
\* of the iterator, the iterator's destructor has destroyed exactly the not
\* yet yielded slots k..N-1, once each and in order; no element ever sees two
\* destructor runs; and once the caller has let go of the k yielded elements
\* every element has been destroyed exactly once (N destructor runs).
C3_PartialConsumption ==
    /\ \A i \in 1..Len(items) : heap.drops[i] <= 1
    /\ aPc = "iter_dropped" =>
         /\ heap.iterLog = [j \in 1..(Len(items) - Yielded) |-> Yielded + j - 1]
         /\ HeldByCaller = {} =>
              /\ \A i \in 1..Len(items) : heap.drops[i] = 1
              /\ Len(heap.log) = Len(items)

\* The drop_iter_halfway test: three elements, one yielded, iterator dropped,
\* the yielded element dropped by the caller.
C3_Witness ==
    /\ aPc = "iter_dropped"
    /\ Len(items) = 3
    /\ Yielded = 1
    /\ heap.iterLog = <<1, 2>>
    /\ HeldByCaller = {}

\* C4: once the owning iterator of an Array that had a backing allocation has
\* been dropped, that allocation has been released exactly once.
C4_AllocationReleasedOnce ==
    (aPc = "iter_dropped" /\ alloc.made) => alloc.frees = 1

\* C11: a non-owning view has no destructor effect.  While views of an Array
\* are made and dropped nothing is destroyed and the allocation stays; once
\* the views are gone and the owner is dropped, every element has been
\* destroyed exactly once and the allocation released exactly once.
C11_ViewsAreInert ==
    /\ aPc = "built" =>
         /\ \A i \in 1..Len(items) : heap.drops[i] = 0
         /\ alloc.frees = 0
         /\ alloc.live = alloc.made
    /\ aPc = "array_dropped" =>
         /\ views.held = <<>>
         /\ \A i \in 1..Len(items) : heap.drops[i] = 1
         /\ alloc.frees = (IF alloc.made THEN 1 ELSE 0)
         /\ ~alloc.live

\* Three views of a two-element Array were made and dropped, then the Array.
C11_Witness ==
    /\ aPc = "array_dropped"
    /\ views.made = 3
    /\ Len(items) = 2
    /\ alloc.frees = 1

\* C7: null filtering.  The array built by from_iter has as many elements as
\* the input has elements that do not convert to nil, and holds exactly those
\* elements, converted, in their original relative order.
C7_NullFiltering ==
    aPc # "init" =>
        /\ Len(items) = Cardinality(NonNilIdx)
        /\ \A j \in 1..Len(items) : items[j] = ObjectFrom(input[NthNonNil(j)])

\* An input with a nil element between two kept ones.
C7_Witness ==
    /\ aPc = "built"
    /\ Len(input) = 3
    /\ ~input[2].some
    /\ items = << ObjectFrom(input[1]), ObjectFrom(input[3]) >>
    /\ items[1] # items[2]

\* C8: owning iteration yields the elements in index order 0..N-1, each once,
\* every later next() returns None, and after each next() the iterator's
\* len() is the number of elements not yet yielded.
C8_IterationOrder ==
    /\ \A j \in 1..Len(yieldLog) :
         IF j <= Len(items)
         THEN /\ yieldLog[j].some
              /\ yieldLog[j].slot = j - 1
              /\ yieldLog[j].obj = items[j]
         ELSE ~yieldLog[j].some
    /\ aPc = "iterating" => iter_len(iter) = Len(items) - Yielded

\* The iter_basic test and one more next(): three elements, then None twice.
C8_Witness ==
    /\ aPc = "iterating"
    /\ Len(items) = 3
    /\ Len(yieldLog) = 5
    /\ Yielded = 3
    /\ iter_len(iter) = 0

(* ====================================================================== *)
(*                    AsyncHandle and the async_cb trampoline             *)
(* ====================================================================== *)

Host == 0
Threads == 1..NumThreads

Null == "null"
TheCallback == "callback"

\* The control block before AsyncHandle::new: not registered, no payload.
\*   state    "none" | "active" | "init_failed"
\*   pending  the wake is armed and not yet drained by the loop
\*   data     the payload slot: Null or the boxed callback
\*   calls    number of invocations of the callback
\*   invokers who invoked the callback, and from which function
\*   hist     "s" for every send that armed the wake, "d" for every drain
\*   unserved sends that returned Ok and have seen no invocation since
\*   sends    calls of send made so far
\*   lastCb   what the last finished callback run returned
\*   env      the state captured by the closure boxed at each address
\*   seen     the captured state as each invocation found it
\*   got      the addresses the trampoline has fetched from the data slot
NewControlBlock ==
    [state |-> "none", pending |-> FALSE, data |-> Null, calls |-> 0,
     invokers |-> {}, hist |-> <<>>, unserved |-> 0, sends |-> 0,
     lastCb |-> "none", env |-> [a \in {TheCallback} |-> 0], seen |-> <<>>,
     got |-> {}]

\* Handle::set_data(payload): the boxed payload's address goes into the data slot.
set_data(s, payload) == [s EXCEPT !.data = payload]

\* Handle::get_data(): the address in the data slot (null when none was set).
get_data(s) == s.data

\* AsyncHandle::new: Handle::new runs uv_async_init (a negative status is an
\* error and no handle is made), then the type-erased callback is attached.
AsyncHandle_new(s, status) ==
    IF status < 0
    THEN [s EXCEPT !.state = "init_failed"]
    ELSE set_data([s EXCEPT !.state = "active"], TheCallback)

\* uv_async_send: arms the wake of the handle; sends made while the wake is
\* armed coalesce.  A negative status arms nothing.
uv_async_send(s, retv) ==
    IF retv < 0
    THEN s
    ELSE [s EXCEPT !.pending = TRUE,
                   !.hist = Append(@, "s")]

\* One invocation of the callback, by thread t from function via.
invoke(s, t, via) ==
    [s EXCEPT !.calls = @ + 1,
              !.invokers = @ \cup { <<t, via>> },
              !.unserved = 0]

\* A send that also runs the callback itself, on the calling thread.
send_inline(s, t, retv) ==
    IF retv < 0 THEN uv_async_send(s, retv)
    ELSE invoke(uv_async_send(s, retv), t, "send")

\* AsyncHandle::send, up to the return of uv_async_send.
send(s, t, retv) ==
    uv_async_send(s, retv)

\* A send that reports Ok whatever uv_async_send returned.
send_result_unchecked(retv) == "Ok"

\* AsyncHandle::send, the result: retv < 0 is Err(CouldntTriggerAsyncHandle).
send_result(retv) ==
    IF retv < 0 THEN "Err" ELSE "Ok"

\* A trampoline that runs the callback twice.
async_cb_twice(s) ==
    IF get_data(s) # Null
    THEN invoke(invoke(s, Host, "async_cb"), Host, "async_cb")
    ELSE s

\* A trampoline with the null check inverted.
async_cb_inverted(s) ==
    IF get_data(s) = Null THEN invoke(s, Host, "async_cb") ELSE s

\* callback(): the FnMut boxed at address addr runs on its own captured
\* state, reads it and leaves it changed.
call_payload(s, addr) ==
    [s EXCEPT !.got = @ \cup {addr},
              !.seen = Append(@, s.env[addr]),
              !.env[addr] = @ + 1]

\* A trampoline that runs a copy of the boxed closure: what the run changes
\* in its captured state is lost.
async_cb_copy(s) ==
    LET callback == get_data(s) IN
    IF callback # Null
    THEN invoke([s EXCEPT !.got = @ \cup {callback},
                          !.seen = Append(@, s.env[callback])],
                Host, "async_cb")
    ELSE s

\* async_cb: from_raw, get_data, null check, then the callback is invoked
\* through the pointer.
async_cb(s) ==
    LET callback == get_data(s) IN
    IF callback # Null
    THEN invoke(call_payload(s, callback), Host, "async_cb")
    ELSE s

\* A trampoline that detaches the payload when the callback fails.
async_cb_result_detach(s, res) ==
    IF res = "err"
    THEN [s EXCEPT !.lastCb = res, !.data = Null]
    ELSE [s EXCEPT !.lastCb = res]

\* async_cb, after the callback returned: if let Err(_err) = callback() { }
async_cb_result(s, res) ==
    [s EXCEPT !.lastCb = res]

\* The host loop's drain of the handle's wake: the armed flag is cleared and
\* the handle's trampoline is about to be called.
uv_drain(s) ==
    [s EXCEPT !.pending = FALSE, !.hist = Append(@, "d")]

\* Bookkeeping of one more call of send and of what it will return.
Counted(s, result) ==
    [s EXCEPT !.sends = @ + 1,
              !.unserved = IF result = "Ok" THEN @ + 1 ELSE @]

\* ---- actions ----

\* let handle = AsyncHandle::new(callback), on the host thread.
New ==
    /\ ah.state = "none"
    /\ hostStack = <<>>
    /\ \E status \in {0, -1} : ah' = AsyncHandle_new(ah, status)
    /\ UNCHANGED <<tpc, tret, hostStack, hostRet>>
    /\ UNCHANGED <<arrayVars, bridgeVars>>

\* A sender thread enters handle.send() and uv_async_send returns to it.
SendCall(t) ==
    /\ ah.state = "active"
    /\ tpc[t] = "idle"
    /\ ah.sends < MaxSends
    /\ \E retv \in {0, -1} :
         /\ ah' = Counted(send(ah, t, retv), send_result(retv))
         /\ tret' = [tret EXCEPT ![t] = retv]
    /\ tpc' = [tpc EXCEPT ![t] = "in_send"]
    /\ UNCHANGED <<hostStack, hostRet>>
    /\ UNCHANGED <<arrayVars, bridgeVars>>

\* The sender thread's send() returns Ok or Err.
SendReturn(t) ==
    /\ tpc[t] = "in_send"
    /\ tpc' = [tpc EXCEPT ![t] = "idle"]
    /\ tret' = [tret EXCEPT ![t] = 0]
    /\ UNCHANGED <<ah, hostStack, hostRet>>
    /\ UNCHANGED <<arrayVars, bridgeVars>>

\* The host thread itself calls handle.send(): from its own code between two
\* loop iterations, or from inside the callback.
HostSendCall ==
    /\ ah.state = "active"
    /\ IF hostStack = <<>> THEN TRUE ELSE hostStack[Len(hostStack)] = "callback"
    /\ ah.sends < MaxSends
    /\ \E retv \in {0, -1} :
         /\ ah' = Counted(send(ah, Host, retv), send_result(retv))
         /\ hostRet' = retv
    /\ hostStack' = Append(hostStack, "send")
    /\ UNCHANGED <<tpc, tret>>
    /\ UNCHANGED <<arrayVars, bridgeVars>>

HostSendReturn ==
    /\ hostStack # <<>>
    /\ hostStack[Len(hostStack)] = "send"
    /\ hostStack' = SubSeq(hostStack, 1, Len(hostStack) - 1)
    /\ hostRet' = 0
    /\ UNCHANGED <<ah, tpc, tret>>
    /\ UNCHANGED <<arrayVars, bridgeVars>>

\* The host loop reaches a scheduling point with the wake armed.
HostDrain ==
    /\ hostStack = <<>>
    /\ ah.pending
    /\ ah' = uv_drain(ah)
    /\ hostStack' = <<"async_cb">>
    /\ UNCHANGED <<tpc, tret, hostRet>>
    /\ UNCHANGED <<arrayVars, bridgeVars>>

\* The loop calls async_cb(ptr); the trampoline calls the callback, if any.
AsyncCbEnter ==
    /\ hostStack = <<"async_cb">>
    /\ ah' = async_cb(ah)
    /\ hostStack' = IF ah'.calls > ah.calls THEN <<"async_cb", "callback">> ELSE <<>>
    /\ UNCHANGED <<tpc, tret, hostRet>>
    /\ UNCHANGED <<arrayVars, bridgeVars>>

\* The callback returns Ok or Err to the trampoline, which returns to the loop.
CallbackReturn ==
    /\ hostStack = <<"async_cb", "callback">>
    /\ \E res \in {"ok", "err"} : ah' = async_cb_result(ah, res)
    /\ hostStack' = <<>>
    /\ UNCHANGED <<tpc, tret, hostRet>>
    /\ UNCHANGED <<arrayVars, bridgeVars>>

InitAsync ==
    /\ ah = NewControlBlock
    /\ tpc = [t \in Threads |-> "idle"]
    /\ tret = [t \in Threads |-> 0]
    /\ hostStack = <<>>
    /\ hostRet = 0

NextAsync ==
    \/ New
    \/ \E t \in Threads : SendCall(t)
    \/ \E t \in Threads : SendReturn(t)
    \/ HostSendCall
    \/ HostSendReturn
    \/ HostDrain
    \/ AsyncCbEnter
    \/ CallbackReturn

HostFairness ==
    /\ WF_vars(HostDrain)
    /\ WF_vars(AsyncCbEnter)
    /\ WF_vars(CallbackReturn)
    /\ WF_vars(HostSendReturn)

(* -------------------- claims about the AsyncHandle --------------------- *)

\* Drains of the wake made by the host loop so far.
Drains == Cardinality({ i \in 1..Len(ah.hist) : ah.hist[i] = "d" })

\* 1 while the loop has drained the wake and the trampoline has not yet
\* reached the callback.
Owed == IF hostStack = <<"async_cb">> THEN 1 ELSE 0

\* C1: wake coalescing.  The n >= 1 sends that arm the wake between two drains
\* of the host loop are answered by exactly one invocation of the callback:
\* the invocations are as many as the drains, every drain follows at least one
\* send made since the drain before it, and a wake is armed exactly when a
\* send has been made since the last drain (so a send after the callback ran
\* causes exactly one more invocation: 5 sends, drain, 1 send, drain is 2).
C1_WakeCoalescing ==
    /\ ah.calls + Owed = Drains
    /\ \A i \in 1..Len(ah.hist) :
         ah.hist[i] = "d" => (i > 1 /\ ah.hist[i - 1] = "s")
    /\ ah.pending <=> (ah.hist # <<>> /\ ah.hist[Len(ah.hist)] = "s")

\* Five sends, a drain, one more send, a drain: two invocations.
C1_Witness ==
    /\ ah.hist = <<"s", "s", "s", "s", "s", "d", "s", "d">>
    /\ ah.calls = 2
    /\ hostStack = <<"async_cb", "callback">>

\* C2: the callback is invoked only by the host thread, from the async_cb
\* trampoline, and never from inside send: on the host's stack the callback's
\* frame sits directly on async_cb's, and no invocation was made by a sender
\* thread or by a send of the host thread itself.
C2_InvokedOnHostOnly ==
    /\ ah.invokers \subseteq { <<Host, "async_cb">> }
    /\ \A i \in 1..Len(hostStack) :
         hostStack[i] = "callback" => (i > 1 /\ hostStack[i - 1] = "async_cb")

\* The callback runs on the host, the host is itself inside a send made from
\* the callback, and a sender thread is inside send at the same time.
C2_Witness ==
    /\ ah.invokers = { <<Host, "async_cb">> }
    /\ hostStack = <<"async_cb", "callback", "send">>
    /\ \E t \in Threads : tpc[t] = "in_send" /\ tret[t] = 0
    /\ ah.calls = 2

\* C9: wake liveness.  With the host loop reaching its scheduling points,
\* every send that returns Ok is eventually followed by an invocation of the
\* callback.
C9_WakeLiveness ==
    (ah.unserved > 0) ~> (ah.unserved = 0)

\* Sends that returned Ok have all been answered, one of them after an
\* earlier invocation, while another send failed.
C9_Witness ==
    /\ ah.unserved = 0
    /\ ah.calls = 2
    /\ Len(ah.hist) = 4
    /\ ah.sends = 3

\* C13: handle payload singularity.  From AsyncHandle::new on the data slot
\* holds the one boxed callback; every run of the trampoline, whichever clone
\* armed the wake, fetches that address, and finds the closure's captured
\* state as the run before left it (the i-th run finds i - 1 earlier runs);
\* with no payload attached the trampoline invokes nothing.
C13_PayloadSingularity ==
    /\ ah.state = "active" => get_data(ah) = TheCallback
    /\ ah.got \subseteq {TheCallback}
    /\ Len(ah.seen) = ah.calls
    /\ \A i \in 1..Len(ah.seen) : ah.seen[i] = i - 1
    /\ async_cb(set_data(ah, Null)) = set_data(ah, Null)

\* Third run of the callback, while both sender threads are inside send
\* through their clones.
C13_Witness ==
    /\ ah.seen = <<0, 1, 2>>
    /\ ah.got = {TheCallback}
    /\ hostStack = <<"async_cb", "callback">>
    /\ \A t \in Threads : tpc[t] = "in_send" /\ tret[t] = 0

\* The step in which the callback returns to the trampoline.
CallbackReturns ==
    /\ hostStack = <<"async_cb", "callback">>
    /\ hostStack' = <<>>

\* The step in which a send is made whose uv_async_send succeeds.
SendSucceeds ==
    /\ ah'.sends = ah.sends + 1
    /\ Len(ah'.hist) = Len(ah.hist) + 1

\* What of the handle a sender or the loop can see.
HandleState(s) == <<s.state, s.pending, s.data, s.calls, s.unserved, s.hist>>

\* C12: an error returned by the callback is discarded in async_cb.  The
\* return of the callback, whatever it returns, changes nothing of the handle;
\* a send whose uv_async_send succeeds returns Ok also after the callback has
\* failed; and, with the host loop reaching its scheduling points, a send that
\* returned Ok after a failed callback is followed by another invocation.
C12_CallbackErrorDiscarded ==
    /\ [][CallbackReturns => HandleState(ah') = HandleState(ah)]_vars
    /\ [][SendSucceeds => ah'.unserved = ah.unserved + 1]_vars
    /\ (ah.lastCb = "err" /\ ah.unserved > 0) ~> (ah.unserved = 0)

\* The callback failed once, a send was made after that, and the callback is
\* running again.
C12_Witness ==
    /\ ah.lastCb = "err"
    /\ ah.hist = <<"s", "d", "s", "d">>
    /\ ah.calls = 2
    /\ hostStack = <<"async_cb", "callback">>

(* ====================================================================== *)
(*        Closure registry, schedule, Window::call and the getters        *)
(* ====================================================================== *)

Refs == 1..MaxRefs

\* Values on the interpreter's stack.
LuaNil == [t |-> "nil", name |-> "", ref |-> 0]
VimTable == [t |-> "table", name |-> "vim", ref |-> 0]
VimSchedule == [t |-> "builtin", name |-> "vim.schedule", ref |-> 0]
Fn(r) == [t |-> "function", name |-> "", ref |-> r]

\* The interpreter before any closure is registered.
\*   stack     the value stack, top last
\*   live      references that have an entry in the registry
\*   kind      per reference: "unused" | "once" | "repeat"
\*   owner     per reference: who registered it ("user" | "schedule" | "win_call")
\*   nextRef   the next reference the registry hands out
\*   queue     functions handed to vim.schedule and not yet run by the loop
\*   runs      per reference: runs of the closure's body
\*   released  per reference: removals of its registry entry requested
\*   outcome   per reference: what the closure's last run returned
\*   unreg     references the user unregistered explicitly
\*   lastSched arguments of the last call of vim.schedule; nSched counts them
\*   raised    the interpreter raised an error (a call of a non-function)
NewLua ==
    [stack |-> <<>>, live |-> {}, kind |-> [r \in Refs |-> "unused"],
     owner |-> [r \in Refs |-> "none"], nextRef |-> 1, queue |-> <<>>,
     runs |-> [r \in Refs |-> 0], released |-> [r \in Refs |-> 0],
     outcome |-> [r \in Refs |-> "none"], unreg |-> {},
     lastSched |-> <<>>, nSched |-> 0, raised |-> FALSE]

\* The record of one operation: the reference it registered or used, whether
\* the foreign call filled the error slot, the result handed to the caller,
\* whether the success continuation ran, whether the closure was invoked, the
\* closure's runs before the operation, the stack depth before it, and the
\* length of the array the foreign call handed back.
NoOp == [op |-> "none", ref |-> 0, slot |-> FALSE, result |-> "none",
         ran |-> FALSE, invoked |-> FALSE, runsBefore |-> 0,
         depth |-> 0, arrLen |-> 0]

lua_push(L, v) == [L EXCEPT !.stack = Append(@, v)]

lua_pop(L, n) == [L EXCEPT !.stack = SubSeq(@, 1, Len(@) - n)]

\* lua_getglobal(L, name): the global table of that name is pushed.
lua_getglobal(L, name) ==
    lua_push(L, IF name = "vim" THEN VimTable ELSE LuaNil)

\* lua_getfield(L, idx, key): the field key of the table at idx is pushed.
lua_getfield(L, idx, key) ==
    LET tab == L.stack[Len(L.stack) + idx + 1] IN
    lua_push(L, IF tab = VimTable /\ key = "schedule" THEN VimSchedule ELSE LuaNil)

\* lua_rawgeti(L, LUA_REGISTRYINDEX, ref): the registry's entry, or nil.
lua_rawgeti(L, ref) ==
    lua_push(L, IF ref \in L.live THEN Fn(ref) ELSE LuaNil)

\* luaL_unref(L, LUA_REGISTRYINDEX, ref): explicit removal of the entry.
luaL_unref(L, ref) ==
    [L EXCEPT !.live = @ \ {ref}, !.released[ref] = @ + 1]

\* The registration shared by from_fn and from_fn_once: the boxed closure gets
\* the registry's next reference.
store(L, kind, owner) ==
    [L EXCEPT !.live = @ \cup {L.nextRef},
              !.kind[L.nextRef] = kind,
              !.owner[L.nextRef] = owner,
              !.nextRef = @ + 1]

\* Function::from_fn: a repeatable closure.
Function_from_fn(L, owner) == store(L, "repeat", owner)

\* Function::from_fn_once: a one-shot closure.
Function_from_fn_once(L, owner) == store(L, "once", owner)

\* Function::remove_from_lua_registry
remove_from_lua_registry(L, ref) == luaL_unref(L, ref)

\* A one-shot trampoline that keeps the entry when the closure failed.
trampoline_keep_on_error(L, ref, res) ==
    LET ran == [L EXCEPT !.runs[ref] = @ + 1, !.outcome[ref] = res] IN
    IF L.kind[ref] = "once" /\ res = "ok" THEN luaL_unref(ran, ref) ELSE ran

\* The trampoline of a registered closure: the closure's body runs and returns
\* res; a one-shot closure's entry is removed right after, whatever res is.
trampoline(L, ref, res) ==
    LET ran == [L EXCEPT !.runs[ref] = @ + 1, !.outcome[ref] = res] IN
    IF L.kind[ref] = "once" THEN luaL_unref(ran, ref) ELSE ran

\* vim.schedule(fn): fn is queued for the host loop; it does not run now.
nlua_schedule(L, args) ==
    [L EXCEPT !.lastSched = args,
              !.nSched = @ + 1,
              !.queue = IF Len(args) >= 1 /\ args[1].t = "function"
                        THEN Append(@, args[1]) ELSE @,
              !.raised = @ \/ ~(Len(args) >= 1 /\ args[1].t = "function")]

\* lua_call(L, nargs, nresults): the function below the nargs topmost values
\* is called with them; function and arguments are popped.  res is what a
\* registered closure returns if one is called.
lua_call(L, nargs, nresults, res) ==
    LET n      == Len(L.stack)
        callee == L.stack[n - nargs]
        args   == SubSeq(L.stack, n - nargs + 1, n)
        popped == [L EXCEPT !.stack = SubSeq(@, 1, n - nargs - 1)]
    IN  IF callee = VimSchedule THEN nlua_schedule(popped, args)
        ELSE IF callee.t = "function" THEN trampoline(popped, callee.ref, res)
        ELSE [popped EXCEPT !.raised = TRUE]

\* A schedule that calls with no argument: the topmost value, the closure, is
\* the function called.
schedule_noarg(L, res) ==
    LET L1  == lua_getglobal(L, "vim")
        L2  == lua_getfield(L1, -1, "schedule")
        L3  == Function_from_fn_once(L2, "schedule")
        fun == L2.nextRef
        L4  == lua_rawgeti(L3, fun)
        L5  == lua_call(L4, 0, 0, res)
        L6  == lua_pop(L5, 1)
    IN  luaL_unref(L6, fun)

\* A schedule that leaves the global table on the stack.
schedule_nopop(L, res) ==
    LET L1  == lua_getglobal(L, "vim")
        L2  == lua_getfield(L1, -1, "schedule")
        L3  == Function_from_fn_once(L2, "schedule")
        fun == L2.nextRef
        L4  == lua_rawgeti(L3, fun)
        L5  == lua_call(L4, 1, 0, res)
    IN  luaL_unref(L5, fun)

\* schedule(fun)
schedule(L, res) ==
    LET L1  == lua_getglobal(L, "vim")
        L2  == lua_getfield(L1, -1, "schedule")
        L3  == Function_from_fn_once(L2, "schedule")
        fun == L2.nextRef
        L4  == lua_rawgeti(L3, fun)
        L5  == lua_call(L4, 1, 0, res)
        L6  == lua_pop(L5, 1)
    IN  luaL_unref(L6, fun)

(* ------------------------- error-slot glue ---------------------------- *)

\* Objects a foreign call hands back.
WinObjects ==
    { [kind |-> "nil", n |-> 0],
      [kind |-> "integer", n |-> 3],
      [kind |-> "integer", n |-> -1],
      [kind |-> "string", n |-> 0] }

\* Arrays nvim_win_get_cursor hands back: a (line, col) pair when it
\* succeeded, and whatever is left in the return slot when it failed.
CursorArrays ==
    { <<>>,
      << [kind |-> "nil", n |-> 0] >>,
      << [kind |-> "integer", n |-> 3], [kind |-> "integer", n |-> 0] >>,
      << [kind |-> "integer", n |-> 1], [kind |-> "integer", n |-> 3] >> }

\* usize::from_obj: an integer object that fits, or a conversion error.
from_obj(obj) ==
    IF obj.kind = "integer" /\ obj.n >= 0
    THEN [tag |-> "Ok", n |-> obj.n]
    ELSE [tag |-> "ConvErr", n |-> 0]

\* nvim::Error::is_err: the error-output slot is populated.
is_err(err) == err

\* Error::into_err_or_flatten(success_cb): a populated slot is the result and
\* the continuation is not called; an empty slot calls it and its result, Ok
\* or conversion error, is the result.
into_err_or_flatten(err, cont) ==
    IF is_err(err)
    THEN [result |-> "ForeignErr", ran |-> FALSE]
    ELSE [result |-> cont, ran |-> TRUE]

\* A get_option that converts the returned object before it looks at the slot.
get_option_eager(err, obj) ==
    IF from_obj(obj).tag # "Ok"
    THEN [result |-> "ConvErr", ran |-> TRUE]
    ELSE [result |-> IF is_err(err) THEN "ForeignErr" ELSE "Ok", ran |-> TRUE]

\* Window::get_option (and get_var): err.into_err_or_flatten(|| Ok(Opt::from_obj(obj)?))
get_option(err, obj) ==
    into_err_or_flatten(err, from_obj(obj).tag)

\* The continuation of get_cursor: two next().unwrap() and two conversions.
get_cursor_cont(arr) ==
    IF Len(arr) < 2 THEN "Panic"
    ELSE IF from_obj(arr[1]).tag # "Ok" THEN "ConvErr"
    ELSE from_obj(arr[2]).tag

\* Window::get_cursor
get_cursor(err, arr) ==
    into_err_or_flatten(err, get_cursor_cont(arr))

\* nvim_win_call(win, ref, &err): an invalid window fills the error slot and
\* the function is not called; otherwise the function behind ref is called
\* and an error it raises fills the slot.
nvim_win_call(L, valid, ref, res) ==
    IF ~valid THEN [L |-> L, err |-> TRUE, invoked |-> FALSE]
    ELSE IF ref \notin L.live THEN [L |-> L, err |-> TRUE, invoked |-> FALSE]
    ELSE [L |-> trampoline(L, ref, res), err |-> res = "err", invoked |-> TRUE]

\* Window::call(fun)
Window_call(L, valid, res, obj) ==
    LET L1  == Function_from_fn_once(L, "win_call")
        fun == L.nextRef
        c   == nvim_win_call(L1, valid, fun, res)
        r   == into_err_or_flatten(c.err, from_obj(obj).tag)
    IN  [L |-> IF r.ran THEN remove_from_lua_registry(c.L, fun) ELSE c.L,
         ref |-> fun, slot |-> c.err, result |-> r.result, ran |-> r.ran,
         invoked |-> c.invoked]

\* Function::call: the function behind ref is fetched from the registry and
\* called; a reference without an entry does not resolve.
Function_call(L, ref, res) ==
    IF ref \in L.live
    THEN [L |-> trampoline(L, ref, res), result |-> res]
    ELSE [L |-> L, result |-> "unresolved"]

\* ---- actions ----

\* schedule(fun)
Schedule ==
    /\ lua.nextRef <= MaxRefs
    /\ \E res \in {"ok", "err"} :
         /\ lua' = schedule(lua, res)
         /\ last' = [NoOp EXCEPT !.op = "schedule", !.ref = lua.nextRef,
                                 !.depth = Len(lua.stack)]
    /\ UNCHANGED <<arrayVars, asyncVars>>

\* The host loop runs the function at the head of the scheduler's queue.
RunScheduled ==
    /\ lua.queue # <<>>
    /\ \E res \in {"ok", "err"} :
         LET f == Head(lua.queue) IN
         /\ lua' = trampoline([lua EXCEPT !.queue = Tail(@)], f.ref, res)
         /\ last' = [NoOp EXCEPT !.op = "run", !.ref = f.ref, !.result = res,
                                 !.invoked = TRUE, !.runsBefore = lua.runs[f.ref]]
    /\ UNCHANGED <<arrayVars, asyncVars>>

\* let f = Function::from_fn(..) or Function::from_fn_once(..), kept by the user.
Register ==
    /\ lua.nextRef <= MaxRefs
    /\ \E k \in {"once", "repeat"} :
         /\ lua' = IF k = "once" THEN Function_from_fn_once(lua, "user")
                                 ELSE Function_from_fn(lua, "user")
         /\ last' = [NoOp EXCEPT !.op = "register", !.ref = lua.nextRef]
    /\ UNCHANGED <<arrayVars, asyncVars>>

\* f.call(args) on a reference the user was handed.
CallRef ==
    /\ \E r \in Refs, res \in {"ok", "err"} :
         /\ lua.owner[r] = "user"
         /\ lua.runs[r] < MaxRuns
         /\ LET c == Function_call(lua, r, res) IN
              /\ lua' = c.L
              /\ last' = [NoOp EXCEPT !.op = "call", !.ref = r, !.result = c.result,
                                      !.invoked = c.result # "unresolved",
                                      !.runsBefore = lua.runs[r]]
    /\ UNCHANGED <<arrayVars, asyncVars>>

\* f.remove_from_lua_registry() on a closure the user still has registered.
Unregister ==
    /\ \E r \in Refs :
         /\ lua.owner[r] = "user"
         /\ r \in lua.live
         /\ lua' = [remove_from_lua_registry(lua, r) EXCEPT !.unreg = @ \cup {r}]
         /\ last' = [NoOp EXCEPT !.op = "unregister", !.ref = r]
    /\ UNCHANGED <<arrayVars, asyncVars>>

\* window.call(fun)
WindowCall ==
    /\ lua.nextRef <= MaxRefs
    /\ \E valid \in BOOLEAN, res \in {"ok", "err"}, obj \in WinObjects :
         LET c == Window_call(lua, valid, res, obj) IN
         /\ lua' = c.L
         /\ last' = [NoOp EXCEPT !.op = "win_call", !.ref = c.ref, !.slot = c.slot,
                                 !.result = c.result, !.ran = c.ran,
                                 !.invoked = c.invoked]
    /\ UNCHANGED <<arrayVars, asyncVars>>

\* window.get_option(name) / window.get_var(name)
GetOption ==
    /\ \E err \in BOOLEAN, obj \in WinObjects :
         LET r == get_option(err, obj) IN
         last' = [NoOp EXCEPT !.op = "get_option", !.slot = err,
                              !.result = r.result, !.ran = r.ran]
    /\ UNCHANGED lua
    /\ UNCHANGED <<arrayVars, asyncVars>>

\* window.get_cursor(): the foreign call hands back a (line, col) pair unless
\* it filled the error slot.
GetCursor ==
    /\ \E err \in BOOLEAN, arr \in CursorArrays :
         /\ err \/ Len(arr) = 2
         /\ LET r == get_cursor(err, arr) IN
              last' = [NoOp EXCEPT !.op = "get_cursor", !.slot = err,
                                   !.result = r.result, !.ran = r.ran,
                                   !.arrLen = Len(arr)]
    /\ UNCHANGED lua
    /\ UNCHANGED <<arrayVars, asyncVars>>

\* The interpreter calls into native code with one more value on its stack:
\* lua::with_state hands schedule the interpreter as it is at that point.
LuaEnter ==
    /\ Len(lua.stack) < MaxDepth
    /\ lua' = lua_push(lua, LuaNil)
    /\ last' = [NoOp EXCEPT !.op = "enter", !.depth = Len(lua.stack)]
    /\ UNCHANGED <<arrayVars, asyncVars>>

\* The native code returns to the interpreter, which drops that value.
LuaLeave ==
    /\ lua.stack # <<>>
    /\ lua' = lua_pop(lua, 1)
    /\ last' = [NoOp EXCEPT !.op = "leave", !.depth = Len(lua.stack)]
    /\ UNCHANGED <<arrayVars, asyncVars>>

InitBridge ==
    /\ lua = NewLua
    /\ last = NoOp

NextBridge ==
    \/ Schedule
    \/ RunScheduled
    \/ Register
    \/ CallRef
    \/ Unregister
    \/ WindowCall
    \/ GetOption
    \/ GetCursor
    \/ LuaEnter
    \/ LuaLeave

(* ---------------------- claims about the bridge ----------------------- *)

\* C5: one-shot registry cleanup.  A one-shot closure runs at most once and,
\* once it has run, with success or with an error, its registry entry is gone
\* and a further invocation through the same reference does not resolve; a
\* repeatable closure keeps its entry, and stays callable, until the user
\* unregisters it.
C5_OneShotCleanup ==
    /\ \A r \in Refs :
         lua.kind[r] = "once" =>
             /\ lua.runs[r] <= 1
             /\ lua.runs[r] = 1 => r \notin lua.live
    /\ (last.op = "call" /\ lua.kind[last.ref] = "once" /\ last.runsBefore >= 1)
           => last.result = "unresolved"
    /\ \A r \in Refs :
         (lua.kind[r] = "repeat" /\ r \notin lua.unreg) => r \in lua.live
    /\ (last.op = "call" /\ lua.kind[last.ref] = "repeat" /\ last.ref \notin lua.unreg)
           => last.result # "unresolved"

\* A one-shot closure whose only run returned an error is invoked again
\* through its reference, which no longer resolves.
C5_Witness ==
    /\ last.op = "call"
    /\ last.result = "unresolved"
    /\ lua.kind[last.ref] = "once"
    /\ lua.outcome[last.ref] = "err"
    /\ lua.runs[last.ref] = 1
    /\ last.runsBefore = 1

Wrappers == {"get_option", "get_cursor", "win_call"}

SchedRefs == { r \in Refs : lua.owner[r] = "schedule" }

\* What holds when schedule returns, and of every scheduled closure.
C10_Safety ==
    /\ last.op = "schedule" =>
         /\ lua.kind[last.ref] = "once"
         /\ lua.lastSched = << Fn(last.ref) >>
         /\ last.ref \notin lua.live
         /\ lua.runs[last.ref] = 0
         /\ lua.queue # <<>>
         /\ lua.queue[Len(lua.queue)] = Fn(last.ref)
    /\ lua.nSched = Cardinality(SchedRefs)
    /\ \A r \in SchedRefs : lua.runs[r] <= 1

\* C10: schedule(fun) registers fun as a one-shot closure, calls vim.schedule
\* with exactly one argument, the registered closure, and has unregistered the
\* reference when it returns; fun has not run when schedule returns, and the
\* host loop later runs it exactly once.
C10_ScheduleRunsOnceLater ==
    /\ []C10_Safety
    /\ \A r \in Refs : (lua.owner[r] = "schedule") ~> (lua.runs[r] = 1)

\* Two closures were scheduled and the host loop has run both.
C10_Witness ==
    /\ last.op = "run"
    /\ lua.nSched = 2
    /\ lua.queue = <<>>
    /\ \A r \in SchedRefs : lua.runs[r] = 1
    /\ Cardinality(SchedRefs) = 2

\* C14: a registry reference is released at most once.  For every reference,
\* the caller's explicit unregistration (luaL_unref in schedule,
\* remove_from_lua_registry in Window::call) and the one-shot trampoline's own
\* removal never both release it.
C14_ReleasedAtMostOnce ==
    \A r \in Refs : lua.released[r] <= 1

\* C15: when Window::call has returned, the registry holds no entry for the
\* closure it registered, whether the foreign call succeeded or filled the
\* error slot (the closure invoked or not).
C15_WindowCallUnregisters ==
    last.op = "win_call" => last.ref \notin lua.live

\* C16: schedule leaves the interpreter's stack as it found it.  When a
\* schedule call has returned, the first or a later one, the stack is as deep
\* as it was when the call was made.
C16_ScheduleKeepsStack ==
    last.op = "schedule" => Len(lua.stack) = last.depth

\* The second of two schedule calls has returned, the interpreter having had
\* a value of its own on the stack.
C16_Witness ==
    /\ last.op = "schedule"
    /\ last.ref = 2
    /\ lua.owner[1] = "schedule"
    /\ last.depth = 1
    /\ lua.stack = <<LuaNil>>

Init == InitArray /\ InitAsync /\ InitBridge

SpecArray == Init /\ [][NextArray]_vars

SpecAsync == Init /\ [][NextAsync]_vars

FairSpecAsync == SpecAsync /\ HostFairness

SpecBridge == Init /\ [][NextBridge]_vars

FairSpecBridge == SpecBridge /\ WF_vars(RunScheduled)

====
